---- MODULE Spec2Model ----
(***************************************************************************)
(* State-machine model of the Catastrophe Loss Radar dashboard (App.jsx):  *)
(* the county-list fetch, the per-county series loads, the derived views   *)
(* (ranked list, suggestions) and the search box.                          *)
(*                                                                         *)
(* Conventions.  A JavaScript value that may be null/undefined is a        *)
(* sequence of length 0 (absent) or 1 (present).  A string is a sequence   *)
(* of one-character strings; the empty string and a missing string are     *)
(* both <<>> (both are falsy in every test the code makes).  A fips is a   *)
(* string of decimal digits.    React state setters of one handler are     *)
(* committed together, and every handler runs against the latest render.  *)
(* App is the root component: it stays mounted for the whole session.      *)
(***************************************************************************)
EXTENDS Integers, Sequences, FiniteSets, TLC

VARIABLES
  countiesMeta,  \* useState(null): <<>> or <<[run, counties]>>
  runId,         \* useState(null): <<>> or <<run string>>
  selected,      \* useState(null): <<>> or <<[fips, name]>>
  series,        \* useState(null): <<>> or <<sequence of points>>
  loading,       \* useState(true)
  error,         \* useState(""): sequence of message parts, <<>> is ""
  q,             \* search text
  openSug,       \* popover open
  activeSug,     \* highlighted suggestion (0-based)
  focused,       \* the search input has the focus
  blurTimers,    \* setTimeout callbacks scheduled by onBlur, not yet run
  listReq,       \* the mount effect's GET /loss/counties: "pending", "ok", "failed"
  pending,       \* loadCounty calls suspended at their await, in issue order
  committed,     \* history: the request and raw response the current series came from
  lastAct        \* history: the county activation the last step made, if it made one

vars == <<countiesMeta, runId, selected, series, loading, error, q, openSug,
          activeSug, focused, blurTimers, listReq, pending, committed, lastAct>>

(* ------------------------------ bounds -------------------------------- *)
MaxQLen == 2        \* longest search text typed
MaxCounties == 4    \* longest county list a response carries (SpecDerived)
MaxInflight == 2    \* series requests in flight at once
MaxSeriesLen == 3   \* longest series a response carries (SpecSeries)
MaxTimers == 1      \* blur timers outstanding at once

(* ------------------------------ strings ------------------------------- *)
None == <<>>
Some(x) == <<x>>

Min(a, b) == IF a <= b THEN a ELSE b
Max(a, b) == IF a >= b THEN a ELSE b

\* String.prototype.toLowerCase, on the characters the model uses
LowerChar(c) == CASE c = "A" -> "a" [] c = "B" -> "b" [] OTHER -> c
toLowerCase(s) == [i \in 1..Len(s) |-> LowerChar(s[i])]

IsSpace(c) == c = " "

RECURSIVE trimStart(_)
trimStart(s) == IF s # <<>> /\ IsSpace(Head(s)) THEN trimStart(Tail(s)) ELSE s

RECURSIVE trimEnd(_)
trimEnd(s) ==
  IF s # <<>> /\ IsSpace(s[Len(s)]) THEN trimEnd(SubSeq(s, 1, Len(s) - 1)) ELSE s

\* String.prototype.trim
trim(s) == trimEnd(trimStart(s))

\* String.prototype.includes
includes(s, t) ==
  \E i \in 0..(Len(s) - Len(t)) : SubSeq(s, i + 1, i + Len(t)) = t

(* ------------------------------ numbers ------------------------------- *)
\* `x || 0` and `Number(x) || 0` on a number that may be missing
OrZero(x) == IF x = None THEN 0 ELSE x[1]

(* ------------------------------ data ---------------------------------- *)
\* fips of the i-th county of a list: "4800i"
DigitChars == <<"1", "2", "3", "4", "5", "6", "7", "8", "9">>
FipsOf(i) == <<"4", "8", "0", "0", DigitChars[i]>>

\* (name, el_total_sum) combinations a CountySummary may carry
CountyKinds ==
  { [name |-> <<"A", "b">>, el_total_sum |-> Some(2)],
    [name |-> <<"a">>,      el_total_sum |-> Some(2)],
    [name |-> <<"b", "a">>, el_total_sum |-> None],
    [name |-> <<>>,         el_total_sum |-> Some(3)] }

MkCounty(i, k) == [fips |-> FipsOf(i), name |-> k.name, el_total_sum |-> k.el_total_sum]

\* every county list of at most n entries, fips distinct
CountyListsUpTo(n) ==
  UNION { { [i \in 1..m |-> MkCounty(i, f[i])] : f \in [1..m -> CountyKinds] } : m \in 0..n }

Run1 == <<"r", "=", "1">>
Run2 == <<"r", "&", "2">>

List1 ==
  << [fips |-> FipsOf(1), name |-> <<"A", "b">>, el_total_sum |-> Some(2)],
     [fips |-> FipsOf(2), name |-> <<"a">>,      el_total_sum |-> Some(2)],
     [fips |-> FipsOf(3), name |-> <<"b", "a">>, el_total_sum |-> None] >>
List2 ==
  << [fips |-> FipsOf(2), name |-> <<>>,         el_total_sum |-> Some(1)],
     [fips |-> FipsOf(1), name |-> <<"a">>,      el_total_sum |-> Some(3)] >>

\* GET /loss/counties bodies of the application specification
CtlResponses ==
  { [run |-> Run1, counties |-> List1],
    [run |-> Run2, counties |-> List2],
    [run |-> <<>>, counties |-> List1] }

\* GET /loss/counties bodies of the derived-view specification
AllResponses == { [run |-> Run1, counties |-> l] : l \in CountyListsUpTo(MaxCounties) }

\* polygons of the topology: String(geo.id) and properties.NAME
Geos ==
  { [id |-> <<"4", "8", "0", "0", "1">>, NAME |-> <<"G">>],
    [id |-> <<"4", "8", "0", "0", "9">>, NAME |-> <<>>],
    [id |-> <<"1", "0", "0", "1">>,      NAME |-> <<"G">>] }

\* the polygons of the specification without the search box: one more, whose
\* county is in the lists, in one of them without a name
CtlGeos == Geos \cup { [id |-> <<"4", "8", "0", "0", "2">>, NAME |-> <<"H">>] }

\* characters the user types
QChars == {"a", "B", " "}
\* search texts the user enters in the application specification
CtlQueries == {<<>>, <<"a">>, <<"B", " ">>, <<" ">>, <<"a", "a">>}

\* el_total values of a raw series point (missing, or a number)
StepValues == {None, Some(50), Some(100), Some(200)}

\* raw series of n points: point i has dt = i
RawSeriesUpTo(n) ==
  UNION { { [i \in 1..m |-> [dt |-> i, el_total |-> f[i]]] : f \in [1..m -> StepValues] }
          : m \in 0..n }

\* GET /loss/county bodies of the application specification
CtlSeries ==
  { <<>>,
    << [dt |-> 1, el_total |-> Some(100)], [dt |-> 2, el_total |-> Some(200)] >> }

(* ------------------------------ helpers ------------------------------- *)
\* encodeURIComponent: unreserved characters pass, the others are %XX
EncChar(c) ==
  CASE c = "=" -> <<"%", "3", "D">>
    [] c = "%" -> <<"%", "2", "5">>
    [] c = "&" -> <<"%", "2", "6">>
    [] OTHER -> <<c>>

RECURSIVE encodeURIComponent(_)
encodeURIComponent(s) ==
  IF s = <<>> THEN <<>> ELSE EncChar(Head(s)) \o encodeURIComponent(Tail(s))

\* String(id).padStart(5, "0")
RECURSIVE padStart5(_)
padStart5(d) == IF Len(d) >= 5 THEN d ELSE padStart5(<<"0">> \o d)

\* startsWith("48")
startsWith48(f) == Len(f) >= 2 /\ f[1] = "4" /\ f[2] = "8"

\* new Date(dt)
Date(dt) == [time |-> dt]

\* `No timeseries for ${name} (${fips})`
SeriesErrorMsg(name, fips) == <<"No timeseries for ", name, " (", fips, ")">>
ListErrorMsg == <<"Failed to load /loss/counties">>

RemoveAt(s, i) == SubSeq(s, 1, i - 1) \o SubSeq(s, i + 1, Len(s))

(* --------------------------- derived views ---------------------------- *)
\* countiesMeta?.counties, [] when there is none
Counties == IF countiesMeta = None THEN <<>> ELSE countiesMeta[1].counties

\* countyIndex.get(fips): the last entry of the list with that fips
countyIndexGet(fips) ==
  LET hits == {i \in 1..Len(Counties) : Counties[i].fips = fips}
  IN IF hits = {} THEN None
     ELSE Some(Counties[CHOOSE i \in hits : \A j \in hits : j <= i])

\* the comparator (a, b) => (b.el_total_sum || 0) - (a.el_total_sum || 0)
byLossDesc(a, b) == OrZero(b.el_total_sum) - OrZero(a.el_total_sum)

\* insertion of x behind every element that does not sort after it
RECURSIVE UnstableInsert(_, _)
UnstableInsert(sorted, x) ==
  IF sorted = <<>> THEN <<x>>
  ELSE IF byLossDesc(Head(sorted), x) < 0
       THEN <<Head(sorted)>> \o UnstableInsert(Tail(sorted), x)
       ELSE <<x>> \o sorted

RECURSIVE StableInsert(_, _)
StableInsert(sorted, x) ==
  IF sorted = <<>> THEN <<x>>
  ELSE IF byLossDesc(Head(sorted), x) <= 0
       THEN <<Head(sorted)>> \o StableInsert(Tail(sorted), x)
       ELSE <<x>> \o sorted

\* Array.prototype.sort with byLossDesc: a stable sort (ECMAScript 2019)
RECURSIVE sortByLoss(_)
sortByLoss(arr) ==
  IF arr = <<>> THEN <<>>
  ELSE StableInsert(sortByLoss(SubSeq(arr, 1, Len(arr) - 1)), arr[Len(arr)])

\* a slice that does not truncate
sliceAll(arr, n) == arr

\* Array.prototype.slice(0, n)
slice0(arr, n) == SubSeq(arr, 1, Min(n, Len(arr)))

SugLimit == 3
TopN == 12

topSorted == sortByLoss(Counties)

\* the filter callback of suggestions: (c.name || "").toLowerCase().includes(t)
nameMatches(t, c) == includes(toLowerCase(c.name), t)

\* Array.prototype.filter with that callback
RECURSIVE filterByName(_, _)
filterByName(arr, t) ==
  IF arr = <<>> THEN <<>>
  ELSE (IF nameMatches(t, Head(arr)) THEN <<Head(arr)>> ELSE <<>>)
       \o filterByName(Tail(arr), t)

\* suggestions that truncate before they sort
suggestionsSliceFirst(query, meta) ==
  IF trim(query) = <<>> \/ meta = None THEN <<>>
  ELSE LET t == toLowerCase(trim(query))
       IN sortByLoss(slice0(filterByName(meta[1].counties, t), SugLimit))

suggestionsOf(query, meta) ==
  IF trim(query) = <<>> \/ meta = None THEN <<>>
  ELSE LET t == toLowerCase(trim(query))
       IN slice0(sortByLoss(filterByName(meta[1].counties, t)), SugLimit)

suggestions == suggestionsOf(q, countiesMeta)

\* maxSum
maxSum ==
  IF Len(Counties) = 0 THEN 1
  ELSE LET vals == {OrZero(Counties[i].el_total_sum) : i \in 1..Len(Counties)} \cup {1}
       IN CHOOSE m \in vals : \A v \in vals : v <= m

\* the gradient of shade: blue-100 and blue-800, as (r, g, b)
ShadeStart == <<219, 234, 254>>
ShadeEnd == <<30, 64, 175>>

\* Math.round(a + (b - a) * t) for t = n / m with 0 <= n <= m, m > 0: the
\* nearest integer, a half rounding up
mix(a, b, n, m) == (2 * (a * m + (b - a) * n) + m) \div (2 * m)

\* a gradient that runs from the dark end to the light end
shadeInverted(value, max) ==
  LET m == IF max = 0 THEN 1 ELSE max
      n == Max(0, Min(m, value))
  IN [k \in 1..3 |-> mix(ShadeEnd[k], ShadeStart[k], n, m)]

\* shade(value, max): t = Math.max(0, Math.min(1, (value || 0) / (max || 1)))
shade(value, max) ==
  LET m == IF max = 0 THEN 1 ELSE max
      n == Max(0, Min(m, value))
  IN [k \in 1..3 |-> mix(ShadeStart[k], ShadeEnd[k], n, m)]

\* "rgb(243, 244, 246)"
baseFill == <<243, 244, 246>>

\* fill of the polygon with that fips
fillOf(fips) ==
  LET meta == countyIndexGet(fips)
  IN IF meta # None THEN shade(OrZero(meta[1].el_total_sum), maxSum) ELSE baseFill

\* the cumulative map of loadCounty, cum being the running sum so far
RECURSIVE mapCum(_, _)
mapCum(raw, cum) ==
  IF raw = <<>> THEN <<>>
  ELSE LET step == OrZero(Head(raw).el_total)
       IN <<[dt |-> Date(Head(raw).dt), el_total |-> step, cum |-> cum + step]>>
          \o mapCum(Tail(raw), cum + step)

\* a running sum that lives on across loads
toSeriesCarry(raw) ==
  mapCum(raw, IF series # None /\ series[1] # <<>> THEN series[1][Len(series[1])].cum ELSE 0)

\* let cum = 0; (r.data.series || []).map(...)
toSeries(raw) == mapCum(raw, 0)

\* the run qualifier without the encoding
runQueryRaw(rid) ==
  IF rid # None /\ rid[1] # <<>> THEN <<"&", "r", "u", "n", "=">> \o rid[1] ELSE <<>>

\* q of loadCounty: runId ? `&run=${encodeURIComponent(runId)}` : ""
runQuery(rid) ==
  IF rid # None /\ rid[1] # <<>> THEN <<"&", "r", "u", "n", "=">> \o encodeURIComponent(rid[1])
  ELSE <<>>

(* ------------------------------ state --------------------------------- *)
\* the first render, the mount effect's request already issued
Init ==
  /\ countiesMeta = None
  /\ runId = None
  /\ selected = None
  /\ series = None
  /\ loading = TRUE
  /\ error = <<>>
  /\ q = <<>>
  /\ openSug = FALSE
  /\ activeSug = 0
  /\ focused = FALSE
  /\ blurTimers = 0
  /\ listReq = "pending"
  /\ pending = <<>>
  /\ committed = None
  /\ lastAct = None

searchVars == <<q, openSug, activeSug, focused, blurTimers>>
listVars == <<countiesMeta, runId, loading, listReq>>
detailVars == <<selected, series, error, pending, committed>>

\* history of a step that activates the county fips / that activates none
activates(fips, via) ==
  lastAct' = Some([fips |-> fips, via |-> via, before |-> Len(pending),
                   hadSeries |-> series # None, hadError |-> error # <<>>])
noActivation == lastAct' = None

(* --------------------------- the list fetch --------------------------- *)
\* r.data?.run || null
runOrNull(run) == IF run # <<>> THEN Some(run) ELSE None

\* the mount effect after its await: the try block, then finally
ListOk(resp) ==
  /\ noActivation
  /\ listReq = "pending"
  /\ countiesMeta' = Some(resp)
  /\ runId' = runOrNull(resp.run)
  /\ loading' = FALSE
  /\ listReq' = "ok"
  /\ UNCHANGED <<selected, series, error, pending, committed>>
  /\ UNCHANGED searchVars

\* a list failure that is only logged
ListFailOnlyLogged ==
  /\ noActivation
  /\ listReq = "pending"
  /\ listReq' = "failed"
  /\ UNCHANGED <<countiesMeta, runId, loading, selected, series, error, pending, committed>>
  /\ UNCHANGED searchVars

\* the mount effect after its await threw: the catch block, then finally
ListFail ==
  /\ noActivation
  /\ listReq = "pending"
  /\ error' = ListErrorMsg
  /\ loading' = FALSE
  /\ listReq' = "failed"
  /\ UNCHANGED <<countiesMeta, runId, selected, series, pending, committed>>
  /\ UNCHANGED searchVars

(* --------------------------- the series load -------------------------- *)
\* an activation that leaves the previous error message in place
loadCountyKeepsError(fips, name) ==
  /\ Len(pending) < MaxInflight
  /\ selected' = Some([fips |-> fips, name |-> name])
  /\ series' = None
  /\ pending' = Append(pending, [fips |-> fips, name |-> name, qs |-> runQuery(runId)])
  /\ committed' = None
  /\ UNCHANGED error

\* loadCounty up to its await: the three setters and the request
loadCounty(fips, name) ==
  /\ Len(pending) < MaxInflight
  /\ selected' = Some([fips |-> fips, name |-> name])
  /\ series' = None
  /\ error' = <<>>
  /\ pending' = Append(pending, [fips |-> fips, name |-> name, qs |-> runQuery(runId)])
  /\ committed' = None

\* a resolution that prefers the caller's name to the summary's
resolveNamePrefersFallback(fips, fallbackName) ==
  LET meta == countyIndexGet(fips)
  IN IF fallbackName # <<>> THEN fallbackName
     ELSE IF meta # None /\ meta[1].name # <<>> THEN meta[1].name
     ELSE fips

\* meta?.name || fallbackName || fips
resolveName(fips, fallbackName) ==
  LET meta == countyIndexGet(fips)
  IN IF meta # None /\ meta[1].name # <<>> THEN meta[1].name
     ELSE IF fallbackName # <<>> THEN fallbackName
     ELSE fips

selectWithoutZoom(fips, fallbackName) == loadCounty(fips, resolveName(fips, fallbackName))

\* loadCounty after its await: the cumulative map and setSeries
SeriesOk(i, raw) ==
  /\ noActivation
  /\ i \in 1..Len(pending)
  /\ series' = Some(toSeries(raw))
  /\ committed' = Some([fips |-> pending[i].fips, raw |-> raw])
  /\ pending' = RemoveAt(pending, i)
  /\ UNCHANGED <<selected, error>>
  /\ UNCHANGED listVars
  /\ UNCHANGED searchVars

\* a failure that also clears the series
SeriesFailClears(i) ==
  /\ noActivation
  /\ i \in 1..Len(pending)
  /\ error' = SeriesErrorMsg(pending[i].name, pending[i].fips)
  /\ series' = None
  /\ committed' = None
  /\ pending' = RemoveAt(pending, i)
  /\ UNCHANGED selected
  /\ UNCHANGED listVars
  /\ UNCHANGED searchVars

\* a failure that issues the request again
SeriesFailRetries(i) ==
  /\ noActivation
  /\ i \in 1..Len(pending)
  /\ error' = SeriesErrorMsg(pending[i].name, pending[i].fips)
  /\ pending' = Append(RemoveAt(pending, i), pending[i])
  /\ UNCHANGED <<selected, series, committed>>
  /\ UNCHANGED listVars
  /\ UNCHANGED searchVars

\* loadCounty after its await threw: the catch block
SeriesFail(i) ==
  /\ noActivation
  /\ i \in 1..Len(pending)
  /\ error' = SeriesErrorMsg(pending[i].name, pending[i].fips)
  /\ pending' = RemoveAt(pending, i)
  /\ UNCHANGED <<selected, series, committed>>
  /\ UNCHANGED listVars
  /\ UNCHANGED searchVars

(* ----------------------------- activations ---------------------------- *)
\* geo.properties?.NAME || meta?.name || fips
geoName(geo, fips) ==
  LET meta == countyIndexGet(fips)
  IN IF geo.NAME # <<>> THEN geo.NAME
     ELSE IF meta # None /\ meta[1].name # <<>> THEN meta[1].name
     ELSE fips

\* onClick of a polygon that passed the state-prefix filter
MapClick(geo) ==
  LET fips == padStart5(geo.id)
  IN /\ ~focused
     /\ startsWith48(fips)
     /\ selectWithoutZoom(fips, geoName(geo, fips))
     /\ activates(fips, "map")
     /\ UNCHANGED listVars
     /\ UNCHANGED searchVars

\* onClick of the i-th row of the ranked list
ListClick(i) ==
  LET c == topSorted[i]
  IN /\ ~focused
     /\ i \in 1..Min(Len(topSorted), TopN)
     /\ selectWithoutZoom(c.fips, IF c.name # <<>> THEN c.name ELSE c.fips)
     /\ activates(c.fips, "list")
     /\ UNCHANGED listVars
     /\ UNCHANGED searchVars

\* onMouseDown of the i-th button of the popover (preventDefault keeps the focus)
SugMouseDown(i) ==
  /\ openSug
  /\ i \in 1..Len(suggestions)
  /\ selectWithoutZoom(suggestions[i].fips, suggestions[i].name)
  /\ activates(suggestions[i].fips, "mouse")
  /\ openSug' = FALSE
  /\ UNCHANGED <<q, activeSug, focused, blurTimers>>
  /\ UNCHANGED listVars

(* ----------------------------- the search box ------------------------- *)
\* the user puts the cursor into the input
Focus ==
  /\ noActivation
  /\ ~focused
  /\ focused' = TRUE
  /\ UNCHANGED <<q, openSug, activeSug, blurTimers>>
  /\ UNCHANGED listVars
  /\ UNCHANGED detailVars

\* an onChange that leaves the highlight where it is
onChangeKeepsActive(value) ==
  /\ noActivation
  /\ focused
  /\ q' = value
  /\ openSug' = TRUE
  /\ UNCHANGED <<activeSug, focused, blurTimers>>
  /\ UNCHANGED listVars
  /\ UNCHANGED detailVars

\* onChange with the new value
onChange(value) ==
  /\ noActivation
  /\ focused
  /\ q' = value
  /\ openSug' = TRUE
  /\ activeSug' = 0
  /\ UNCHANGED <<focused, blurTimers>>
  /\ UNCHANGED listVars
  /\ UNCHANGED detailVars

TypeChar(c) == Len(q) < MaxQLen /\ onChange(Append(q, c))
DeleteChar == q # <<>> /\ onChange(SubSeq(q, 1, Len(q) - 1))

\* a blur that closes the popover at once
BlurImmediate ==
  /\ noActivation
  /\ focused
  /\ focused' = FALSE
  /\ openSug' = FALSE
  /\ UNCHANGED <<q, activeSug, blurTimers>>
  /\ UNCHANGED listVars
  /\ UNCHANGED detailVars

\* onBlur: schedules the closing of the popover
Blur ==
  /\ noActivation
  /\ focused
  /\ blurTimers < MaxTimers
  /\ focused' = FALSE
  /\ blurTimers' = blurTimers + 1
  /\ UNCHANGED <<q, openSug, activeSug>>
  /\ UNCHANGED listVars
  /\ UNCHANGED detailVars

\* the callback of onBlur's setTimeout
BlurTimeout ==
  /\ noActivation
  /\ blurTimers > 0
  /\ blurTimers' = blurTimers - 1
  /\ openSug' = FALSE
  /\ UNCHANGED <<q, activeSug, focused>>
  /\ UNCHANGED listVars
  /\ UNCHANGED detailVars

Keys == {"ArrowDown", "ArrowUp", "Enter", "Escape"}

\* an index that wraps around at the end of the list
arrowDownWraps(i, len) == (i + 1) % len

\* (i) => Math.min(i + 1, suggestions.length - 1)
arrowDown(i, len) == Min(i + 1, len - 1)

\* (i) => Math.max(i - 1, 0)
arrowUp(i) == Max(i - 1, 0)

\* a pick that ignores the active index
pickFirst(sug, i) == sug[1]

\* suggestions[activeSug] || suggestions[0]
pickOf(sug, i) == IF i + 1 \in 1..Len(sug) THEN sug[i + 1] ELSE sug[1]

onSearchKeyDown(key) ==
  /\ focused
  /\ IF ~openSug /\ key \in {"ArrowDown", "Enter"}
     THEN /\ openSug' = TRUE
          /\ UNCHANGED <<q, activeSug, focused, blurTimers>>
          /\ UNCHANGED detailVars
          /\ noActivation
     ELSE IF openSug /\ Len(suggestions) > 0
     THEN CASE key = "ArrowDown" ->
                 /\ activeSug' = arrowDown(activeSug, Len(suggestions))
                 /\ UNCHANGED <<q, openSug, focused, blurTimers>>
                 /\ UNCHANGED detailVars
                 /\ noActivation
            [] key = "ArrowUp" ->
                 /\ activeSug' = arrowUp(activeSug)
                 /\ UNCHANGED <<q, openSug, focused, blurTimers>>
                 /\ UNCHANGED detailVars
                 /\ noActivation
            [] key = "Enter" ->
                 LET pick == pickOf(suggestions, activeSug)
                 IN /\ selectWithoutZoom(pick.fips, pick.name)
                    /\ activates(pick.fips, "enter")
                    /\ openSug' = FALSE
                    /\ UNCHANGED <<q, activeSug, focused, blurTimers>>
            [] key = "Escape" ->
                 /\ openSug' = FALSE
                 /\ UNCHANGED <<q, activeSug, focused, blurTimers>>
                 /\ UNCHANGED detailVars
                 /\ noActivation
     ELSE /\ UNCHANGED searchVars
          /\ UNCHANGED detailVars
          /\ noActivation
  /\ UNCHANGED listVars

(* --------------------------- specifications --------------------------- *)
ListOkCtl == \E resp \in CtlResponses : ListOk(resp)
ListOkOne == ListOk([run |-> Run1, counties |-> List1])
ListOkAll == \E resp \in AllResponses : ListOk(resp)
SeriesOkCtl == \E i \in 1..MaxInflight : \E raw \in CtlSeries : SeriesOk(i, raw)
SeriesOkAll == \E i \in 1..MaxInflight : \E raw \in RawSeriesUpTo(MaxSeriesLen) : SeriesOk(i, raw)
SeriesFailAny == \E i \in 1..MaxInflight : SeriesFail(i)
MapClickAny == \E geo \in Geos : MapClick(geo)
MapClickCtl == \E geo \in CtlGeos : MapClick(geo)
ListClickAny == \E i \in 1..TopN : ListClick(i)
SugMouseDownAny == \E i \in 1..SugLimit : SugMouseDown(i)
TypeAny == \E c \in QChars : TypeChar(c)
TypeCtl == \E value \in CtlQueries : value # q /\ onChange(value)
KeyDownAny == \E key \in Keys : onSearchKeyDown(key)

\* the application
Next ==
  \/ ListOkOne
  \/ ListFail
  \/ MapClickAny
  \/ ListClickAny
  \/ SugMouseDownAny
  \/ SeriesOkCtl
  \/ SeriesFailAny
  \/ Focus
  \/ TypeCtl
  \/ Blur
  \/ BlurTimeout
  \/ KeyDownAny

Spec == Init /\ [][Next]_vars

\* the list fetch and the search text, over every county list and search text
NextDerived ==
  \/ ListOkAll
  \/ ListFail
  \/ Focus
  \/ TypeAny
  \/ DeleteChar

SpecDerived == Init /\ [][NextDerived]_vars

\* the list fetch and the series loads, without the search box
NextCtl ==
  \/ ListOkCtl
  \/ ListFail
  \/ MapClickCtl
  \/ ListClickAny
  \/ SeriesOkCtl
  \/ SeriesFailAny

SpecCtl == Init /\ [][NextCtl]_vars

\* the series loads, over every raw series
NextSeries ==
  \/ MapClickAny
  \/ SeriesOkAll
  \/ SeriesFailAny

SpecSeries == Init /\ [][NextSeries]_vars

(* ------------------------------ claims -------------------------------- *)
IsSeriesError(e) == Len(e) = 5
errorFips(e) == e[4]
Last(seq) == seq[Len(seq)]

\* the server's reading of the query string: the run parameter, percent-decoded
DecChar(a, b) ==
  CASE a = "3" /\ b = "D" -> "="
    [] a = "2" /\ b = "5" -> "%"
    [] a = "2" /\ b = "6" -> "&"
    [] OTHER -> "?"

RECURSIVE decodeURIComponent(_)
decodeURIComponent(s) ==
  IF s = <<>> THEN <<>>
  ELSE IF Head(s) = "%" /\ Len(s) >= 3
       THEN <<DecChar(s[2], s[3])>> \o decodeURIComponent(SubSeq(s, 4, Len(s)))
       ELSE <<Head(s)>> \o decodeURIComponent(Tail(s))

RECURSIVE upToAmp(_)
upToAmp(s) == IF s = <<>> \/ Head(s) = "&" THEN <<>> ELSE <<Head(s)>> \o upToAmp(Tail(s))

runParam(qs) ==
  IF Len(qs) >= 5 /\ SubSeq(qs, 1, 5) = <<"&", "r", "u", "n", "=">>
  THEN Some(decodeURIComponent(upToAmp(SubSeq(qs, 6, Len(qs)))))
  ELSE None

\* C1: once every series request has resolved, the committed series and any
\* series error belong to the current Selection, never to a superseded county.
C1_StaleDiscarded ==
  (pending = <<>> /\ selected # None) =>
     /\ (committed # None => committed[1].fips = selected[1].fips)
     /\ (IsSeriesError(error) => errorFips(error) = selected[1].fips)

\* C2: after the list fetch succeeded the stored run identifier is the response's
\* run and never changes again, and every series request issued carries exactly
\* the stored run identifier, omitting the qualifier only when none is held.
C2_RunPinned ==
  /\ [](listReq = "ok" =>
          /\ (countiesMeta[1].run # <<>> => runId = Some(countiesMeta[1].run))
          /\ (countiesMeta[1].run = <<>> => runId = None))
  /\ [][/\ (listReq = "ok" => runId' = runId)
        /\ (Len(pending') > Len(pending) =>
              /\ runParam(Last(pending').qs) = runId
              /\ (Last(pending').qs = <<>> <=> runId = None))]_vars

\* two requests in flight, both issued after the list loaded, both with its run
C2_Witness ==
  /\ listReq = "ok"
  /\ runId = Some(Run2)
  /\ Len(pending) = 2
  /\ pending[1].fips # pending[2].fips
  /\ runParam(pending[1].qs) = Some(Run2)
  /\ runParam(pending[2].qs) = Some(Run2)

\* C3: right after any activation (map click, ranked-list click, suggestion
\* mouse-down, Enter on a suggestion) Selection is the activated county, the
\* series and the error message are absent, and exactly one more request is in
\* flight, the newest, for that county.
C3_ActivationLoads ==
  lastAct # None =>
     /\ selected # None
     /\ selected[1].fips = lastAct[1].fips
     /\ series = None
     /\ error = <<>>
     /\ Len(pending) = lastAct[1].before + 1
     /\ Last(pending).fips = lastAct[1].fips
     /\ Last(pending).name = selected[1].name

\* a suggestion was activated while a series and an error message were showing
C3_Witness ==
  /\ lastAct # None
  /\ lastAct[1].hadSeries /\ lastAct[1].hadError
  /\ focused /\ ~openSug /\ Len(suggestions) > 0
  /\ selected[1].fips = suggestions[2].fips

\* C4: a failing series request leaves an error message naming the county of
\* the request and the series absent.
C4_FailedClearsSeries ==
  [][\A i \in 1..MaxInflight :
       SeriesFail(i) =>
         /\ error' = SeriesErrorMsg(pending[i].name, pending[i].fips)
         /\ series' = None]_vars

\* C5: a failed fetch (list or series) leaves the county list, the run
\* identifier, Selection and the series as they were.
C5_FailureFrame ==
  [][(ListFail \/ \E i \in 1..MaxInflight : SeriesFail(i)) =>
       /\ countiesMeta' = countiesMeta
       /\ runId' = runId
       /\ selected' = selected
       /\ series' = series]_vars

\* a series failure arrived while a series was on display and left it there
C5_Witness ==
  /\ IsSeriesError(error)
  /\ series # None
  /\ series[1] # <<>>
  /\ selected # None
  /\ countiesMeta # None

matching(t) == {i \in 1..Len(Counties) : includes(toLowerCase(Counties[i].name), t)}
inSuggestions(i) == \E k \in 1..Len(suggestions) : suggestions[k] = Counties[i]
loss(c) == IF c.el_total_sum = None THEN 0 ELSE c.el_total_sum[1]

\* C7 as stated: suggestions has at most 3 entries, each a county of the list
\* whose name contains the search text q case-insensitively, and is empty for
\* an empty or blank q and without a county list.
C7_ContainsQuery ==
  /\ Len(suggestions) <= 3
  /\ \A k \in 1..Len(suggestions) :
       \E i \in matching(toLowerCase(q)) : Counties[i] = suggestions[k]
  /\ (trim(q) = <<>> \/ countiesMeta = None) => suggestions = <<>>

\* C7 as amended: suggestions has at most 3 entries, each a county of the list
\* whose name contains q with its leading and trailing whitespace removed,
\* case-insensitively, and is empty for an empty or blank q and without a list.
C7_ContainsTrimmedQuery ==
  /\ Len(suggestions) <= 3
  /\ \A k \in 1..Len(suggestions) :
       \E i \in matching(toLowerCase(trim(q))) : Counties[i] = suggestions[k]
  /\ (trim(q) = <<>> \/ countiesMeta = None) => suggestions = <<>>

\* more than 3 counties match a search text typed with a trailing blank and in
\* another case than the names
C7_Witness ==
  /\ Len(suggestions) = 3
  /\ Cardinality(matching(toLowerCase(trim(q)))) > 3
  /\ q # trim(q)
  /\ trim(q) # toLowerCase(trim(q))

\* C8: for a search text that is not blank, suggestions holds min(3, number of
\* matches) of the matching counties; its entries are in non-increasing loss
\* order, and no matching county left out has a larger loss than one included
\* (a missing loss counting as 0).
C8_TopByLoss ==
  LET m == matching(toLowerCase(trim(q)))
  IN /\ trim(q) # <<>> => Len(suggestions) = Min(3, Cardinality(m))
     /\ \A k \in 1..Len(suggestions) - 1 : loss(suggestions[k]) >= loss(suggestions[k + 1])
     /\ \A i \in m : \A k \in 1..Len(suggestions) :
          ~inSuggestions(i) => loss(Counties[i]) <= loss(suggestions[k])

\* a match with a larger loss stands behind three other matches in the list,
\* and a county without a loss is left out
C8_Witness ==
  LET m == matching(toLowerCase(trim(q)))
  IN /\ Cardinality(m) = 4
     /\ Len(suggestions) = 3
     /\ inSuggestions(4)
     /\ loss(Counties[4]) > loss(Counties[1])
     /\ \E i \in m : ~inSuggestions(i) /\ Counties[i].el_total_sum = None

\* position in the county list of the county with that fips
indexOf(fips) == CHOOSE i \in 1..Len(Counties) : Counties[i].fips = fips

\* C9: the ranked list is a permutation of the county list in non-increasing
\* loss order in which counties of equal loss keep their order of the list.
C9_StableRanking ==
  /\ Len(topSorted) = Len(Counties)
  /\ \A i \in 1..Len(Counties) : \E k \in 1..Len(topSorted) : topSorted[k] = Counties[i]
  /\ \A k \in 1..Len(topSorted) - 1 : loss(topSorted[k]) >= loss(topSorted[k + 1])
  /\ \A k, l \in 1..Len(topSorted) :
       (k < l /\ loss(topSorted[k]) = loss(topSorted[l])) =>
          indexOf(topSorted[k].fips) < indexOf(topSorted[l].fips)

\* a list that is out of order, with two pairs of counties of equal loss
C9_Witness ==
  /\ Len(Counties) = 4
  /\ topSorted # Counties
  /\ loss(topSorted[1]) = loss(topSorted[2])
  /\ loss(topSorted[2]) > loss(topSorted[3])
  /\ loss(topSorted[3]) = loss(topSorted[4])
  /\ topSorted[1].name # topSorted[2].name

\* s_1 + ... + s_i of a raw series, a missing step counting as 0
RECURSIVE sumTo(_, _)
sumTo(raw, i) ==
  IF i = 0 THEN 0
  ELSE sumTo(raw, i - 1) + (IF raw[i].el_total = None THEN 0 ELSE raw[i].el_total[1])

\* C10: the committed series has one point per step of the response it came
\* from, in the response's order, and point i carries s_1 + ... + s_i.
C10_Cumulative ==
  series # None =>
     /\ committed # None
     /\ LET raw == committed[1].raw
            pts == series[1]
        IN /\ Len(pts) = Len(raw)
           /\ \A i \in 1..Len(raw) :
                /\ pts[i].dt.time = raw[i].dt
                /\ pts[i].cum = sumTo(raw, i)

\* steps [100, 200, 50] are on display as [100, 300, 350]
C10_Witness ==
  /\ series # None
  /\ committed # None
  /\ Len(series[1]) = 3
  /\ [i \in 1..3 |-> committed[1].raw[i].el_total] = <<Some(100), Some(200), Some(50)>>
  /\ [i \in 1..3 |-> series[1][i].cum] = <<100, 300, 350>>

\* C11: typing opens the popover and resets the active index to 0; with the
\* popover open and at least one suggestion, ArrowDown sets the active index to
\* min(i + 1, len - 1) and ArrowUp to max(i - 1, 0); the arrow keys change
\* neither Selection nor the series.
C11_KeyboardNav ==
  [][/\ (focused /\ q' # q /\ \E value \in CtlQueries : onChange(value)) =>
          (openSug' /\ activeSug' = 0)
     /\ \A key \in {"ArrowDown", "ArrowUp"} :
          (/\ focused /\ openSug
           /\ UNCHANGED <<q, openSug, focused, blurTimers, pending>>
           /\ Len(suggestions) >= 1
           /\ onSearchKeyDown(key)) =>
             /\ key = "ArrowDown" => activeSug' = Min(activeSug + 1, Len(suggestions) - 1)
             /\ key = "ArrowUp" => activeSug' = Max(activeSug - 1, 0)
             /\ selected' = selected
             /\ series' = series]_vars

\* the last of three suggestions is highlighted, where one more ArrowDown
\* would leave the list, while a county is selected and its series is showing
C11_Witness ==
  /\ focused /\ openSug
  /\ Len(suggestions) = 3
  /\ activeSug = 2
  /\ selected # None
  /\ series # None

\* C12: Enter with the popover closed only opens it: Selection, the series, the
\* error message and the requests in flight stay as they were.  Enter with the
\* popover open on at least one suggestion makes the suggestion at the active
\* index (the first one if the index is out of range) the Selection, issues
\* one series request for it, and closes the popover.
C12_Enter ==
  [][(/\ focused
      /\ UNCHANGED <<q, activeSug, focused, blurTimers>>
      /\ Len(pending') >= Len(pending)
      /\ onSearchKeyDown("Enter")) =>
       IF ~openSug
       THEN /\ openSug'
            /\ selected' = selected
            /\ series' = series
            /\ error' = error
            /\ pending' = pending
       ELSE Len(suggestions) >= 1 =>
              LET s == IF activeSug < Len(suggestions)
                       THEN suggestions[activeSug + 1] ELSE suggestions[1]
              IN /\ selected' # None
                 /\ selected'[1].fips = s.fips
                 /\ selected'[1].name = (IF s.name # <<>> THEN s.name ELSE s.fips)
                 /\ series' = None
                 /\ Len(pending') = Len(pending) + 1
                 /\ Last(pending').fips = s.fips
                 /\ ~openSug']_vars

\* Enter committed the second suggestion, replacing a Selection whose series
\* was showing
C12_Witness ==
  /\ lastAct # None
  /\ lastAct[1].via = "enter"
  /\ lastAct[1].hadSeries
  /\ activeSug = 1
  /\ ~openSug
  /\ Len(suggestions) >= 2
  /\ selected[1].fips = suggestions[2].fips
  /\ Last(pending).fips = suggestions[2].fips

\* C13: in every state where the popover is open, whatever the suggestion list
\* is, Escape closes the popover and leaves Selection, the series and the
\* error message as they were.
C13_EscapeCloses ==
  (focused /\ openSug) =>
     ENABLED (/\ onSearchKeyDown("Escape")
              /\ ~openSug'
              /\ selected' = selected
              /\ series' = series
              /\ error' = error)

\* C14: losing the focus leaves the popover as it is; a mouse-down on a
\* suggestion before the blur timer has run still makes that suggestion the
\* Selection; when the blur timer runs the popover is closed.
C14_BlurGrace ==
  [][/\ Blur => openSug' = openSug
     /\ \A i \in 1..SugLimit :
          (~focused /\ blurTimers > 0 /\ openSug /\ ~openSug' /\ SugMouseDown(i)) =>
             /\ selected' # None
             /\ selected'[1].fips = suggestions[i].fips
             /\ Last(pending').fips = suggestions[i].fips
     /\ BlurTimeout => ~openSug']_vars

\* the input lost the focus, and before the timer ran a mouse-down on the
\* second suggestion made it the Selection
C14_Witness ==
  /\ lastAct # None
  /\ lastAct[1].via = "mouse"
  /\ ~focused
  /\ blurTimers > 0
  /\ ~openSug
  /\ Len(suggestions) >= 2
  /\ selected[1].fips = suggestions[2].fips

\* the largest loss of the county list, a missing loss counting as 0
largestLoss ==
  CHOOSE m \in {loss(Counties[i]) : i \in 1..Len(Counties)} :
    \A i \in 1..Len(Counties) : loss(Counties[i]) <= m

\* every channel of a colour lies between the two ends of the gradient
inGradient(rgb) ==
  \A k \in 1..3 : rgb[k] >= <<30, 64, 175>>[k] /\ rgb[k] <= <<219, 234, 254>>[k]

\* C15 as stated: maxSum is the largest loss of the list floored at 1; a county
\* of loss 0 is filled with the light end of the gradient and a county of the
\* largest loss of the list with the dark end; every fill lies in the gradient.
C15_LargestIsDark ==
  Len(Counties) > 0 =>
     /\ maxSum = Max(largestLoss, 1)
     /\ \A i \in 1..Len(Counties) :
          /\ loss(Counties[i]) = 0 => fillOf(Counties[i].fips) = <<219, 234, 254>>
          /\ loss(Counties[i]) = largestLoss => fillOf(Counties[i].fips) = <<30, 64, 175>>
          /\ inGradient(fillOf(Counties[i].fips))

\* C15 as amended: maxSum is the largest loss of the list floored at 1; a county
\* of loss 0 is filled with the light end of the gradient, and a county of the
\* largest loss of the list with the dark end provided that loss is at least 1;
\* every fill lies in the gradient.
C15_LargestIsDarkFrom1 ==
  Len(Counties) > 0 =>
     /\ maxSum = Max(largestLoss, 1)
     /\ \A i \in 1..Len(Counties) :
          /\ loss(Counties[i]) = 0 => fillOf(Counties[i].fips) = <<219, 234, 254>>
          /\ (loss(Counties[i]) = largestLoss /\ largestLoss >= 1) =>
               fillOf(Counties[i].fips) = <<30, 64, 175>>
          /\ inGradient(fillOf(Counties[i].fips))

\* a list with counties of loss 0, 2 and 3: light end, two thirds of the way,
\* dark end
C15_Witness ==
  /\ Len(Counties) = 3
  /\ maxSum = 3
  /\ \E i, j, k \in 1..3 :
       /\ loss(Counties[i]) = 0 /\ fillOf(Counties[i].fips) = <<219, 234, 254>>
       /\ loss(Counties[j]) = 2 /\ fillOf(Counties[j].fips) = <<93, 121, 201>>
       /\ loss(Counties[k]) = 3 /\ fillOf(Counties[k].fips) = <<30, 64, 175>>

isFailure == ListFail \/ \E i \in 1..MaxInflight : SeriesFail(i)

\* every request in flight after the step was in flight before it
noNewRequest == \A k \in 1..Len(pending') : \E j \in 1..Len(pending) : pending[j] = pending'[k]

\* C16 as stated: an activation issues exactly one series request, a failure
\* issues none, and after a failure no request is in flight.
C16_IdleAfterFailure ==
  [][/\ lastAct' # None => Len(pending') = Len(pending) + 1
     /\ isFailure => (noNewRequest /\ pending' = <<>>)]_vars

\* C16 as amended: a request is issued only by an activation, exactly one per
\* activation; a failure issues none (after a list failure the requests in
\* flight are those that were, after a series failure those that were less
\* the failed one); and in every reachable state a click on a county of the
\* map is accepted and issues a request.
C16_NoRetry ==
  /\ [][/\ lastAct' # None => Len(pending') = Len(pending) + 1
        /\ Len(pending') > Len(pending) => lastAct' # None
        /\ ListFail => pending' = pending
        /\ (\E i \in 1..MaxInflight : SeriesFail(i)) =>
              (noNewRequest /\ Len(pending') = Len(pending) - 1)]_vars
  /\ [](Len(pending) < MaxInflight =>
          \A geo \in CtlGeos :
            startsWith48(padStart5(geo.id)) =>
              ENABLED (/\ MapClick(geo)
                       /\ Len(pending') = Len(pending) + 1
                       /\ Last(pending').fips = padStart5(geo.id)))

\* the list fetch and a series request have failed, another request is still
\* in flight, and a county was activated on top of it
C16_Witness ==
  /\ listReq = "failed"
  /\ lastAct # None
  /\ lastAct[1].hadError
  /\ lastAct[1].before = 1
  /\ Len(pending) = 2

\* an identifier padded with zeros on the left to 5 characters
zeroPadded(id) ==
  [k \in 1..5 |-> IF k <= 5 - Len(id) THEN "0" ELSE id[k - (5 - Len(id))]]

\* the summaries of the county list with that fips that carry a name
namedSummaries(fips) ==
  {i \in 1..Len(Counties) : Counties[i].fips = fips /\ Counties[i].name # <<>>}

\* C17: after a map click Selection's fips is the clicked polygon's identifier
\* zero-padded to 5 digits and its name is the name of the county's summary if
\* there is one with a name, else the polygon's NAME, else the fips; and a
\* polygon whose padded identifier does not start with "48" cannot be clicked.
C17_MapClickResolves ==
  /\ (lastAct # None /\ lastAct[1].via = "map") =>
        \E geo \in CtlGeos :
          /\ selected # None
          /\ selected[1].fips = zeroPadded(geo.id)
          /\ SubSeq(selected[1].fips, 1, 2) = <<"4", "8">>
          /\ Last(pending).fips = selected[1].fips
          /\ selected[1].name =
               (IF namedSummaries(selected[1].fips) # {}
                THEN Counties[CHOOSE i \in namedSummaries(selected[1].fips) : TRUE].name
                ELSE IF geo.NAME # <<>> THEN geo.NAME
                ELSE selected[1].fips)
  /\ \A geo \in CtlGeos :
       SubSeq(zeroPadded(geo.id), 1, 2) # <<"4", "8">> => ~ENABLED MapClick(geo)

\* the clicked county has a summary without a name: the polygon's NAME is shown
C17_Witness ==
  /\ lastAct # None
  /\ lastAct[1].via = "map"
  /\ selected[1].fips = <<"4", "8", "0", "0", "2">>
  /\ countyIndexGet(selected[1].fips) # None
  /\ namedSummaries(selected[1].fips) = {}
  /\ selected[1].name = <<"H">>

\* the states of the detail panel
Idle == selected = None /\ series = None /\ error = <<>>
Loading == selected # None /\ series = None /\ error = <<>>
Loaded == series # None /\ error = <<>>
Failed == error # <<>> /\ series = None

\* C18: in every reachable state the detail panel is in one of Idle, Loading,
\* Loaded and Failed: an error message and a series are never both present.
C18_PanelExclusive ==
  /\ Idle \/ Loading \/ Loaded \/ Failed
  /\ ~(error # <<>> /\ series # None)

\* C19: whenever the suggestion list is not empty the active index is one of
\* its positions, 0 .. len - 1; so the suggestion Enter has just committed is
\* the highlighted one, never the first one by fall-back.
C19_ActiveInRange ==
  /\ Len(suggestions) > 0 => (activeSug >= 0 /\ activeSug <= Len(suggestions) - 1)
  /\ (lastAct # None /\ lastAct[1].via = "enter") =>
        /\ activeSug + 1 <= Len(suggestions)
        /\ selected[1].fips = suggestions[activeSug + 1].fips

\* the last of three suggestions was highlighted with the arrow keys and
\* committed with Enter
C19_Witness ==
  /\ lastAct # None
  /\ lastAct[1].via = "enter"
  /\ Len(suggestions) = 3
  /\ activeSug = 2
  /\ selected[1].fips = suggestions[3].fips

====
